---- MODULE Spec2Model ----
(***************************************************************************)
(* vfrmap (src/vfrmap/main.go): the process that polls the flight          *)
(* simulator through SimConnect, projects each Report record into an       *)
(* outbound message and hands it to the websocket hub, while the main      *)
(* goroutine waits for the interrupt signal and drains the hub's channels. *)
(*                                                                         *)
(* The packages simconnect and vfrmap/websockets are modelled from the     *)
(* specification (sections 4.2, 4.3 and 6): main.go only calls them.       *)
(***************************************************************************)
EXTENDS Integers, Sequences, FiniteSets, TLC

(***************************************************************************)
(* Bounds of the model.                                                    *)
(***************************************************************************)
\* How many matching object-data responses the simulator delivers in a run.
MaxRecords == 2
\* Capacity of a session's outbound buffer (the hub's "small fixed capacity").
QueueCap == 1
\* Capacity of the hub's NewConnection and ReceiveMessages channels.
ChanCap == 1
\* The client sessions that may connect during a run.
Sessions == {"s1", "s2"}

(***************************************************************************)
(* Telemetry values.  A float64 field is held as an integer number of      *)
(* sixteenths; every multiple of 1/16 in the range used is exactly a       *)
(* float64, so Sprintf's correctly rounded output is the round-half-to-    *)
(* even of the exact value.                                                *)
(***************************************************************************)
Abs(v) == IF v < 0 THEN -v ELSE v

\* strconv's rounding of num/den (both >= 0) to an integer: nearest, ties to even.
RoundHalfEven(num, den) ==
    LET q == num \div den
        r == num % den
    IN  IF 2 * r > den \/ (2 * r = den /\ q % 2 = 1) THEN q + 1 ELSE q

DigitChar(d) == <<"0", "1", "2", "3", "4", "5", "6", "7", "8", "9">>[d + 1]

RECURSIVE DecDigits(_)
\* The decimal digits of n >= 0, most significant first ("0" for zero).
DecDigits(n) ==
    IF n < 10 THEN <<DigitChar(n)>>
    ELSE Append(DecDigits(n \div 10), DigitChar(n % 10))

\* Sprintf("%.0f") gone wrong: the fraction cut off instead of rounded.
SprintfF0Trunc(v) ==
    (IF v < 0 THEN <<"-">> ELSE <<>>) \o DecDigits(Abs(v) \div 16)

\* fmt.Sprintf("%.0f", v/16): the sign is that of the value, also when the
\* digits round to zero ("-0").
SprintfF0(v) ==
    (IF v < 0 THEN <<"-">> ELSE <<>>) \o DecDigits(RoundHalfEven(Abs(v), 16))

\* fmt.Sprintf("%.1f", v/16).
SprintfF1(v) ==
    LET t == RoundHalfEven(Abs(v) * 10, 16)
    IN  (IF v < 0 THEN <<"-">> ELSE <<>>)
        \o DecDigits(t \div 10) \o <<".", DigitChar(t % 10)>>

\* int(f): Go's float64 to int conversion discards the fraction (toward zero).
IntOf(v) == IF v < 0 THEN -(Abs(v) \div 16) ELSE v \div 16

\* The Report struct: the ten fields SimConnect fills in.
MkReport(title, alt, lat, lon, hdg, ias, vs, flaps, trim, rtrim) ==
    [Title |-> title, Altitude |-> alt, Latitude |-> lat, Longitude |-> lon,
     Heading |-> hdg, Airspeed |-> ias, VerticalSpeed |-> vs, Flaps |-> flaps,
     Trim |-> trim, RudderTrim |-> rtrim]

\* report := &Report{}: the zero value.
ZeroReport == MkReport("", 0, 0, 0, 0, 0, 0, 0, 0, 0)

\* The map literal handed to ws.Broadcast.
Projection(report) ==
    [latitude       |-> report.Latitude,
     longitude      |-> report.Longitude,
     altitude       |-> SprintfF0(report.Altitude),
     heading        |-> IntOf(report.Heading),
     airspeed       |-> SprintfF0(report.Airspeed),
     vertical_speed |-> SprintfF0(report.VerticalSpeed),
     flaps          |-> SprintfF0(report.Flaps),
     trim           |-> SprintfF1(report.Trim),
     rudder_trim    |-> SprintfF1(report.RudderTrim)]

(***************************************************************************)
(* SimConnect results.  GetNextDispatch returns r1 as an int32; the loop   *)
(* compares uint32(r1) with simconnect.E_FAIL (0x80004005).  A uint32 is   *)
(* held as its two 16-bit words <<high, low>>.                             *)
(***************************************************************************)
Uint32(r) == <<(r \div 65536) % 65536, r % 65536>>

E_FAIL == <<32768, 16389>>

\* The int32 results the simulator may give: S_OK, E_FAIL ("no message
\* available"), and another failure (E_INVALIDARG, 0x80070057).
DispatchResults == {0, -2147467259, -2147024809}

\* The response kinds (SIMCONNECT_RECV_ID): the four the loop names, and one
\* it does not.
RecvIDs == {"EXCEPTION", "OPEN", "EVENT", "SIMOBJECT_DATA_BYTYPE", "QUIT"}

\* The records the simulator answers with in a run of the whole program: the
\* specification's example (each value at the nearest sixteenth), and one with
\* negative values and ties.
ReportA == MkReport("A", 16006, 759, -1957, 2939, 1923, -800, 0, 37, 0)

ReportB == MkReport("B", -7, 8, 24, -25, 40, 8, 56, -4, 12)

Records == {ReportA, ReportB}

\* The record of the answer after n answers: the two records in turn, so that
\* consecutive messages differ.
Flight(n) == IF n % 2 = 0 THEN ReportA ELSE ReportB

\* No response: the locals of an iteration that has not polled yet.
NoData == [ID |-> "none", RequestID |-> 0, Data |-> ZeroReport]

VARIABLES
    status,          \* "running", "exit0" (os.Exit(0)) or "exit2" (a panic)
    panicked,        \* the goroutine whose panic ended the process, or "none"
    mainPc,          \* main goroutine: connect, register, request, spawn,
                     \* select, close, check
    err,             \* main's err, which the page handler assigns too
    closeResult,     \* what s.Close() returned: "none" (not called), "ok", "fail"
    exitSignal,      \* the signals buffered in exitSignal (capacity 1)
    defineMap,       \* s.DefineMap["Report"], or -1 before registration
    outstanding,     \* data requests the simulator has not answered yet
    requests,        \* calls of RequestDataOnSimObjectType so far
    acqPc,           \* acquisition goroutine: off, poll, broadcast,
                     \* request, sleep
    r1,              \* the r1 of the last poll
    ppData,          \* the iteration's response
    report,          \* main's report
    acqLog,          \* what the iteration has printed, "" if nothing
    received,        \* the matching records received, in order
    published,       \* the messages handed to ws.Broadcast, in order
    paused,          \* history: the loop has paused (time.Sleep) since its
                     \* last broadcast, or has not broadcast yet
    httpPc,          \* server goroutine: off, listen, serving
    registry,        \* the hub's registered sessions
    sess,            \* per session: state, outbound queue, messages delivered,
                     \* and how many messages had been published when it joined
    newConnection,   \* notifications waiting in ws.NewConnection
    receiveMessages  \* messages waiting in ws.ReceiveMessages

mainVars == <<mainPc, err, closeResult, exitSignal>>
simVars == <<defineMap, outstanding, requests>>
acqVars == <<acqPc, r1, ppData, report, acqLog, received, published, paused>>
hubVars == <<registry, sess, newConnection, receiveMessages>>
vars == <<status, panicked, mainVars, simVars, acqVars, httpPc, hubVars>>

Running == status = "running"

Init ==
    /\ status = "running"
    /\ panicked = "none"
    /\ mainPc = "connect"
    /\ err = "nil"
    /\ closeResult = "none"
    /\ exitSignal = 0
    /\ defineMap = -1
    /\ outstanding = 0
    /\ requests = 0
    /\ acqPc = "off"
    /\ r1 = 0
    /\ ppData = NoData
    /\ report = ZeroReport
    /\ acqLog = ""
    /\ received = <<>>
    /\ published = <<>>
    /\ paused = TRUE
    /\ httpPc = "off"
    /\ registry = {}
    /\ sess = [s \in Sessions |->
                 [state |-> "new", queue |-> <<>>, delivered |-> <<>>, joinedAt |-> 0]]
    /\ newConnection = 0
    /\ receiveMessages = 0

\* An unrecovered panic in goroutine g: the runtime prints it and the process
\* ends with status 2.
Panic(g) ==
    /\ status' = "exit2"
    /\ panicked' = g

(***************************************************************************)
(* The environment: the operating system's signal.                         *)
(***************************************************************************)
\* signal.Notify sends without blocking: a signal that finds the buffer full
\* is dropped.
Signal ==
    /\ Running
    /\ exitSignal = 0
    /\ exitSignal' = 1
    /\ UNCHANGED <<status, panicked, mainPc, err, closeResult, simVars, acqVars,
                   httpPc, hubVars>>

(***************************************************************************)
(* main: startup.                                                          *)
(***************************************************************************)
\* s, err := simconnect.New("VFR Map"); if err != nil { panic(err) }
MainConnect ==
    /\ Running
    /\ mainPc = "connect"
    /\ \/ /\ err' = "nil"
          /\ mainPc' = "register"
          /\ UNCHANGED <<status, panicked>>
       \/ /\ err' = "connectErr"
          /\ Panic("main")
          /\ UNCHANGED mainPc
    /\ UNCHANGED <<closeResult, exitSignal, simVars, acqVars, httpPc, hubVars>>

\* The startup step gone wrong: a failed registration is printed and main
\* goes on to its first request.
MainRegisterGoesOn ==
    /\ Running
    /\ mainPc = "register"
    /\ \/ /\ err' = "nil"
          /\ defineMap' = 0
       \/ /\ err' = "registerErr"
          /\ UNCHANGED defineMap
    /\ mainPc' = "request"
    /\ UNCHANGED <<status, panicked, closeResult, exitSignal, outstanding,
                   requests, acqVars, httpPc, hubVars>>

\* err = s.RegisterDataDefinition(report); if err != nil { panic(err) }
MainRegister ==
    /\ Running
    /\ mainPc = "register"
    /\ \/ /\ err' = "nil"
          /\ defineMap' = 0
          /\ mainPc' = "request"
          /\ UNCHANGED <<status, panicked>>
       \/ /\ err' = "registerErr"
          /\ Panic("main")
          /\ UNCHANGED <<mainPc, defineMap>>
    /\ UNCHANGED <<closeResult, exitSignal, outstanding, requests, acqVars,
                   httpPc, hubVars>>

\* Report.RequestData: one RequestDataOnSimObjectType with requestID = defineID.
RequestData ==
    /\ requests' = requests + 1
    /\ outstanding' = outstanding + 1
    /\ UNCHANGED defineMap

\* report.RequestData(s), before the goroutines start.
MainRequestData ==
    /\ Running
    /\ mainPc = "request"
    /\ RequestData
    /\ mainPc' = "spawn"
    /\ UNCHANGED <<status, panicked, err, closeResult, exitSignal, acqVars,
                   httpPc, hubVars>>

\* The two go statements.
MainSpawn ==
    /\ Running
    /\ mainPc = "spawn"
    /\ acqPc' = "poll"
    /\ httpPc' = "listen"
    /\ mainPc' = "select"
    /\ UNCHANGED <<status, panicked, err, closeResult, exitSignal, simVars,
                   r1, ppData, report, acqLog, received, published, paused,
                   hubVars>>

(***************************************************************************)
(* The websocket hub (package vfrmap/websockets) and its sessions.         *)
(***************************************************************************)
\* A session that has closed ("closed": the hub has yet to remove it; "gone":
\* unregistered; "dropped": removed by a broadcast that could not enqueue):
\* its buffer and what its client saw are dropped with it.
Closed(st) == [state |-> st, queue |-> <<>>, delivered |-> <<>>, joinedAt |-> 0]

\* A session takes a message while it is open and its buffer has room.
Accepts(s) == sess[s].state = "open" /\ Len(sess[s].queue) < QueueCap

\* The registry after the removal of s (unregister).
Unregister(reg, s) == reg \ {s}

\* Broadcast gone wrong: the first failing enqueue ends the fan-out, so that
\* nobody is served when some session fails.
BroadcastAbort(msg) ==
    /\ registry' = {s \in registry : Accepts(s)}
    /\ sess' = [s \in Sessions |->
                  IF s \notin registry THEN sess[s]
                  ELSE IF Accepts(s)
                       THEN IF \A t \in registry : Accepts(t)
                            THEN [sess[s] EXCEPT !.queue = Append(@, msg)]
                            ELSE sess[s]
                       ELSE Closed("dropped")]
    /\ UNCHANGED <<newConnection, receiveMessages>>

\* ws.Broadcast(msg): an enqueue attempt per registered session; a session
\* whose enqueue fails is removed, the others take the message.  It returns
\* whatever the sessions do.
Broadcast(msg) ==
    /\ registry' = {s \in registry : Accepts(s)}
    /\ sess' = [s \in Sessions |->
                  IF s \notin registry THEN sess[s]
                  ELSE IF Accepts(s)
                       THEN [sess[s] EXCEPT !.queue = Append(@, msg)]
                       ELSE Closed("dropped")]
    /\ UNCHANGED <<newConnection, receiveMessages>>

\* ws.Serve for a new client: the session is registered and announced on
\* ws.NewConnection.
WsServe(s) ==
    /\ Running
    /\ httpPc = "serving"
    /\ sess[s].state = "new"
    /\ newConnection < ChanCap
    /\ sess' = [sess EXCEPT ![s].state = "open", ![s].joinedAt = Len(published)]
    /\ registry' = registry \cup {s}
    /\ newConnection' = newConnection + 1
    /\ UNCHANGED <<status, panicked, mainVars, simVars, acqVars, httpPc,
                   receiveMessages>>

\* A client sends a message: it is passed on through ws.ReceiveMessages.
SessionInbound(s) ==
    /\ Running
    /\ sess[s].state = "open"
    /\ receiveMessages < ChanCap
    /\ receiveMessages' = receiveMessages + 1
    /\ UNCHANGED <<status, panicked, mainVars, simVars, acqVars, httpPc,
                   registry, sess, newConnection>>

\* The session's drain task writes the head of its buffer to the client.
SessionDrain(s) ==
    /\ Running
    /\ sess[s].state = "open"
    /\ sess[s].queue # <<>>
    /\ sess' = [sess EXCEPT ![s].delivered = Append(@, Head(sess[s].queue)),
                            ![s].queue = Tail(@)]
    /\ UNCHANGED <<status, panicked, mainVars, simVars, acqVars, httpPc,
                   registry, newConnection, receiveMessages>>

\* A write error or the client going away: the session closes itself; the
\* hub has not removed it yet.
SessionClose(s) ==
    /\ Running
    /\ sess[s].state = "open"
    /\ sess' = [sess EXCEPT ![s] = Closed("closed")]
    /\ UNCHANGED <<status, panicked, mainVars, simVars, acqVars, httpPc,
                   registry, newConnection, receiveMessages>>

\* The hub handles the closed session's notification: unregister.
HubUnregister(s) ==
    /\ Running
    /\ sess[s].state = "closed"
    /\ s \in registry
    /\ registry' = Unregister(registry, s)
    /\ sess' = [sess EXCEPT ![s] = Closed("gone")]
    /\ UNCHANGED <<status, panicked, mainVars, simVars, acqVars, httpPc,
                   newConnection, receiveMessages>>

(***************************************************************************)
(* The acquisition goroutine.                                              *)
(***************************************************************************)
\* What s.GetNextDispatch() may return now.  The simulator answers a data
\* request of the Report definition only while one is outstanding.
Dispatches ==
    {[r1 |-> r, ppData |-> NoData] : r \in {r \in DispatchResults : r < 0}}
    \cup {[r1 |-> 0, ppData |-> [ID |-> k, RequestID |-> 0, Data |-> ZeroReport]] :
            k \in RecvIDs \ {"SIMOBJECT_DATA_BYTYPE"}}
    \cup {[r1 |-> 0, ppData |-> [ID |-> "SIMOBJECT_DATA_BYTYPE",
                                 RequestID |-> defineMap + 1, Data |-> ZeroReport]]}
    \cup {[r1 |-> 0, ppData |-> [ID |-> "SIMOBJECT_DATA_BYTYPE",
                                 RequestID |-> defineMap, Data |-> d]] :
            d \in IF outstanding > 0 /\ Len(received) < MaxRecords
                  THEN {Flight(Len(received))} ELSE {}}

\* The simulator's side of a dispatch: whether it is the answer to the
\* outstanding Report request, which it uses up.
Answers(d) ==
    /\ d.r1 >= 0
    /\ d.ppData.ID = "SIMOBJECT_DATA_BYTYPE"
    /\ d.ppData.RequestID = defineMap

\* The line a response kind makes the loop print, "" for none.
LogLine(id) ==
    CASE id = "EXCEPTION" -> "SIMCONNECT_RECV_ID_EXCEPTION"
      [] id = "OPEN" -> "SIMCONNECT_RECV_ID_OPEN"
      [] id = "EVENT" -> "unknown SIMCONNECT_RECV_ID_EVENT"
      [] id = "SIMOBJECT_DATA_BYTYPE" -> ""
      [] OTHER -> "recvInfo.ID unknown"

\* The switch gone wrong: the request identifier is not looked at.
IsReportAnyRequest(pp) == pp.ID = "SIMOBJECT_DATA_BYTYPE"

\* Whether the response is the answer to the Report request:
\* case RECV_ID_SIMOBJECT_DATA_BYTYPE, then case s.DefineMap["Report"].
IsReport(pp) == pp.ID = "SIMOBJECT_DATA_BYTYPE" /\ pp.RequestID = defineMap

\* The no-data branch gone wrong: it falls through to the pause.
AcqNoDataPause(d) ==
    /\ d.r1 < 0
    /\ Uint32(d.r1) = E_FAIL
    /\ acqPc' = "sleep"
    /\ UNCHANGED <<status, panicked, report, acqLog>>

\* if uint32(r1) == simconnect.E_FAIL { continue }
AcqNoData(d) ==
    /\ d.r1 < 0
    /\ Uint32(d.r1) = E_FAIL
    /\ acqPc' = "poll"
    /\ UNCHANGED <<status, panicked, report, acqLog>>

\* The failure branch gone wrong: every failure is retried.
AcqFatalRetry(d) ==
    /\ d.r1 < 0
    /\ Uint32(d.r1) # E_FAIL
    /\ acqPc' = "poll"
    /\ UNCHANGED <<status, panicked, report, acqLog>>

\* else { panic(fmt.Errorf("GetNextDispatch error: %d %s", r1, err)) }
AcqFatal(d) ==
    /\ d.r1 < 0
    /\ Uint32(d.r1) # E_FAIL
    /\ Panic("acq")
    /\ UNCHANGED <<acqPc, report, acqLog>>

\* The switch gone wrong: an unrecognized kind panics.
AcqSwitchStrict(d) ==
    /\ d.r1 >= 0
    /\ IF IsReport(d.ppData)
       THEN /\ report' = d.ppData.Data
            /\ acqPc' = "broadcast"
            /\ UNCHANGED <<acqLog, status, panicked>>
       ELSE IF d.ppData.ID \in {"EXCEPTION", "OPEN", "EVENT", "SIMOBJECT_DATA_BYTYPE"}
            THEN /\ acqLog' = LogLine(d.ppData.ID)
                 /\ acqPc' = "sleep"
                 /\ UNCHANGED <<report, status, panicked>>
            ELSE /\ Panic("acq")
                 /\ UNCHANGED <<acqPc, report, acqLog>>

\* The switch gone wrong: report = (*Report)(ppData) is left out, so that
\* the broadcast is of the record before.
AcqSwitchStale(d) ==
    /\ d.r1 >= 0
    /\ IF IsReport(d.ppData)
       THEN /\ acqPc' = "broadcast"
            /\ UNCHANGED <<report, acqLog>>
       ELSE /\ acqLog' = LogLine(d.ppData.ID)
            /\ acqPc' = "sleep"
            /\ UNCHANGED report
    /\ UNCHANGED <<status, panicked>>

\* The switch gone wrong: a generic event makes the loop ask for data again
\* (the SimStart handling the source has commented out).
AcqSwitchEventRequest(d) ==
    /\ d.r1 >= 0
    /\ IF IsReport(d.ppData)
       THEN /\ report' = d.ppData.Data
            /\ acqPc' = "broadcast"
            /\ UNCHANGED acqLog
       ELSE /\ acqLog' = LogLine(d.ppData.ID)
            /\ acqPc' = IF d.ppData.ID = "EVENT" THEN "request" ELSE "sleep"
            /\ UNCHANGED report
    /\ UNCHANGED <<status, panicked>>

\* The switch gone wrong: a cycle that publishes nothing skips the pause.
AcqSwitchNoPause(d) ==
    /\ d.r1 >= 0
    /\ IF IsReport(d.ppData)
       THEN /\ report' = d.ppData.Data
            /\ acqPc' = "broadcast"
            /\ UNCHANGED acqLog
       ELSE /\ acqLog' = LogLine(d.ppData.ID)
            /\ acqPc' = "poll"
            /\ UNCHANGED report
    /\ UNCHANGED <<status, panicked>>

\* The switch gone wrong: an exception response makes the goroutine return.
AcqSwitchReturn(d) ==
    /\ d.r1 >= 0
    /\ IF IsReport(d.ppData)
       THEN /\ report' = d.ppData.Data
            /\ acqPc' = "broadcast"
            /\ UNCHANGED acqLog
       ELSE /\ acqLog' = LogLine(d.ppData.ID)
            /\ acqPc' = IF d.ppData.ID = "EXCEPTION" THEN "done" ELSE "sleep"
            /\ UNCHANGED report
    /\ UNCHANGED <<status, panicked>>

\* switch recvInfo.ID: the cases print; the Report case takes the record
\* and goes on to broadcast it, every other case goes to the pause.
AcqSwitch(d) ==
    /\ d.r1 >= 0
    /\ IF IsReport(d.ppData)
       THEN /\ report' = d.ppData.Data
            /\ acqPc' = "broadcast"
            /\ UNCHANGED acqLog
       ELSE /\ acqLog' = LogLine(d.ppData.ID)
            /\ acqPc' = "sleep"
            /\ UNCHANGED report
    /\ UNCHANGED <<status, panicked>>

\* ppData, r1, err := s.GetNextDispatch(), the test of r1 and the switch.
AcqPoll ==
    /\ Running
    /\ acqPc = "poll"
    /\ \E d \in Dispatches :
          /\ r1' = d.r1
          /\ ppData' = d.ppData
          /\ outstanding' = IF Answers(d) THEN outstanding - 1 ELSE outstanding
          /\ received' = IF Answers(d) THEN Append(received, d.ppData.Data)
                                       ELSE received
          /\ \/ AcqNoData(d)
             \/ AcqFatal(d)
             \/ AcqSwitch(d)
    /\ UNCHANGED <<mainVars, defineMap, requests, published, paused, httpPc,
                   hubVars>>

\* The publish gone wrong: it waits until every registered session can take
\* the message.
AcqBroadcastBlocking ==
    /\ Running
    /\ acqPc = "broadcast"
    /\ \A s \in registry : Accepts(s)
    /\ Broadcast(Projection(report))
    /\ published' = Append(published, Projection(report))
    /\ paused' = FALSE
    /\ acqPc' = "request"
    /\ UNCHANGED <<status, panicked, mainVars, simVars, r1, ppData, report,
                   acqLog, received, httpPc>>

\* ws.Broadcast(map[string]interface{}{...})
AcqBroadcast ==
    /\ Running
    /\ acqPc = "broadcast"
    /\ Broadcast(Projection(report))
    /\ published' = Append(published, Projection(report))
    /\ paused' = FALSE
    /\ acqPc' = "request"
    /\ UNCHANGED <<status, panicked, mainVars, simVars, r1, ppData, report,
                   acqLog, received, httpPc>>

\* The request gone wrong: the loop polls again right after it.
AcqRequestDataNoPause ==
    /\ Running
    /\ acqPc = "request"
    /\ RequestData
    /\ acqPc' = "poll"
    /\ UNCHANGED <<status, panicked, mainVars, r1, ppData, report, acqLog,
                   received, published, paused, httpPc, hubVars>>

\* report.RequestData(s)
AcqRequestData ==
    /\ Running
    /\ acqPc = "request"
    /\ RequestData
    /\ acqPc' = "sleep"
    /\ UNCHANGED <<status, panicked, mainVars, r1, ppData, report, acqLog,
                   received, published, paused, httpPc, hubVars>>

\* The pause gone wrong: every cycle ends with a new request, answered or not.
AcqSleepRequest ==
    /\ Running
    /\ acqPc = "sleep"
    /\ acqPc' = "poll"
    /\ r1' = 0
    /\ ppData' = NoData
    /\ acqLog' = ""
    /\ paused' = TRUE
    /\ RequestData
    /\ UNCHANGED <<status, panicked, mainVars, report, received,
                   published, httpPc, hubVars>>

\* time.Sleep(100 * time.Millisecond), and the next iteration.
AcqSleep ==
    /\ Running
    /\ acqPc = "sleep"
    /\ acqPc' = "poll"
    /\ r1' = 0
    /\ ppData' = NoData
    /\ acqLog' = ""
    /\ paused' = TRUE
    /\ UNCHANGED <<status, panicked, mainVars, simVars, report, received,
                   published, httpPc, hubVars>>

(***************************************************************************)
(* The server goroutine and the page handler.                              *)
(***************************************************************************)
\* err := http.ListenAndServe(httpListen, nil); if err != nil { panic(err) }
HttpListen ==
    /\ Running
    /\ httpPc = "listen"
    /\ \/ /\ httpPc' = "serving"
          /\ UNCHANGED <<status, panicked>>
       \/ /\ Panic("http")
          /\ UNCHANGED httpPc
    /\ UNCHANGED <<mainVars, simVars, acqVars, hubVars>>

\* app: _, err = os.Stat(filePath) assigns the err of main.
HttpApp ==
    /\ Running
    /\ httpPc = "serving"
    /\ err' \in {"nil", "statErr"}
    /\ UNCHANGED <<status, panicked, mainPc, closeResult, exitSignal, simVars,
                   acqVars, httpPc, hubVars>>

(***************************************************************************)
(* main: the select loop.                                                  *)
(***************************************************************************)
\* case <-exitSignal: fmt.Println("exiting..")
CoordSignal ==
    /\ Running
    /\ mainPc = "select"
    /\ exitSignal > 0
    /\ exitSignal' = exitSignal - 1
    /\ mainPc' = "close"
    /\ UNCHANGED <<status, panicked, err, closeResult, simVars, acqVars,
                   httpPc, hubVars>>

\* err = s.Close()
CoordClose ==
    /\ Running
    /\ mainPc = "close"
    /\ \E res \in {"ok", "fail"} :
          /\ closeResult' = res
          /\ err' = IF res = "ok" THEN "nil" ELSE "closeErr"
    /\ mainPc' = "check"
    /\ UNCHANGED <<status, panicked, exitSignal, simVars, acqVars, httpPc,
                   hubVars>>

\* if err != nil { panic(err) }; os.Exit(0)
CoordCheck ==
    /\ Running
    /\ mainPc = "check"
    /\ IF err # "nil"
       THEN Panic("main")
       ELSE status' = "exit0" /\ UNCHANGED panicked
    /\ UNCHANGED <<mainVars, simVars, acqVars, httpPc, hubVars>>

\* The drain gone wrong: a new connection makes main ask for data.
CoordDrainNewConnectionRequest ==
    /\ Running
    /\ mainPc = "select"
    /\ newConnection > 0
    /\ newConnection' = newConnection - 1
    /\ RequestData
    /\ UNCHANGED <<status, panicked, mainVars, acqVars, httpPc,
                   registry, sess, receiveMessages>>

\* case _ = <-ws.NewConnection: drain and skip
CoordDrainNewConnection ==
    /\ Running
    /\ mainPc = "select"
    /\ newConnection > 0
    /\ newConnection' = newConnection - 1
    /\ UNCHANGED <<status, panicked, mainVars, simVars, acqVars, httpPc,
                   registry, sess, receiveMessages>>

\* case _ = <-ws.ReceiveMessages: drain and skip
CoordDrainReceiveMessages ==
    /\ Running
    /\ mainPc = "select"
    /\ receiveMessages > 0
    /\ receiveMessages' = receiveMessages - 1
    /\ UNCHANGED <<status, panicked, mainVars, simVars, acqVars, httpPc,
                   registry, sess, newConnection>>

Next ==
    \/ Signal
    \/ MainConnect
    \/ MainRegister
    \/ MainRequestData
    \/ MainSpawn
    \/ AcqPoll
    \/ AcqBroadcast
    \/ AcqRequestData
    \/ AcqSleep
    \/ HttpListen
    \/ HttpApp
    \/ CoordSignal
    \/ CoordClose
    \/ CoordCheck
    \/ CoordDrainNewConnection
    \/ CoordDrainReceiveMessages
    \/ \E s \in Sessions : WsServe(s)
    \/ \E s \in Sessions : SessionInbound(s)
    \/ \E s \in Sessions : SessionDrain(s)
    \/ \E s \in Sessions : SessionClose(s)
    \/ \E s \in Sessions : HubUnregister(s)

Spec == Init /\ [][Next]_vars

(***************************************************************************)
(* The projection on its own: the loop stands at its first broadcast with  *)
(* a record drawn from a wider set of values, and publishes it.            *)
(***************************************************************************)
ZeroDecimalValues == {0, 7, 8, 9, 15, 24, 40, 152, -7, -8, -24, 16006, -800}
OneDecimalValues == {0, 1, 4, 12, 15, 20, 37, 159, -1, -4, -12}
HeadingValues == {0, 15, 16, 2939, 5759, -15, -16, -25}

FormatRecords ==
    Records \cup
    { MkReport("F", a, b, h, h, Abs(a), -a, a, b, -b) :
        a \in ZeroDecimalValues, b \in OneDecimalValues, h \in HeadingValues }

FormatInit ==
    /\ status = "running"
    /\ panicked = "none"
    /\ mainPc = "select"
    /\ err = "nil"
    /\ closeResult = "none"
    /\ exitSignal = 0
    /\ defineMap = 0
    /\ outstanding = 0
    /\ requests = 1
    /\ acqPc = "broadcast"
    /\ r1 = 0
    /\ report \in FormatRecords
    /\ ppData = [ID |-> "SIMOBJECT_DATA_BYTYPE", RequestID |-> 0, Data |-> report]
    /\ acqLog = ""
    /\ received = <<report>>
    /\ published = <<>>
    /\ paused = TRUE
    /\ httpPc = "serving"
    /\ registry = {}
    /\ sess = [s \in Sessions |->
                 [state |-> "new", queue |-> <<>>, delivered |-> <<>>, joinedAt |-> 0]]
    /\ newConnection = 0
    /\ receiveMessages = 0

FormatNext == AcqBroadcast

FormatSpec == FormatInit /\ [][FormatNext]_vars

(***************************************************************************)
(* The claims.                                                             *)
(***************************************************************************)
\* The requests main issued before the goroutines started.
StartupRequests == IF mainPc \in {"connect", "register", "request"} THEN 0 ELSE 1

\* The response at hand is the simulator's answer to the Report request.
AnswerAtHand ==
    /\ r1 = 0
    /\ ppData.ID = "SIMOBJECT_DATA_BYTYPE"
    /\ ppData.RequestID = defineMap

\* C1: every answer to the Report request is broadcast exactly once, as the
\* projection of its record, and only then followed by exactly one new
\* RequestData; the loop requests nothing without the broadcast before it, and
\* broadcasts nothing for any other response.  In counts: the broadcasts are
\* the answers received (less the one about to be broadcast), the requests are
\* the startup request plus one per broadcast (less the one about to be issued),
\* and the loop stands at its broadcast or its request only with an answer at hand.
C1_BroadcastOnceThenRequest ==
    /\ Len(published) = Len(received) - (IF acqPc = "broadcast" THEN 1 ELSE 0)
    /\ requests = StartupRequests + Len(published)
                    - (IF acqPc = "request" THEN 1 ELSE 0)
    /\ acqPc \in {"broadcast", "request"} =>
          /\ AnswerAtHand
          /\ received # <<>>
          /\ ppData.Data = received[Len(received)]
    /\ acqPc = "request" =>
          published[Len(published)] = Projection(received[Len(received)])

\* C1's case: an answer was broadcast and the request after it was issued.
C1_Witness ==
    /\ acqPc = "sleep"
    /\ AnswerAtHand
    /\ Len(published) = 1
    /\ requests = 2

\* C2: on the interrupt the coordinator closes the telemetry connection and
\* only then exits with status 0; status 0 is reached only after a close that
\* succeeded, a failing close ends the process with a non-zero status, and the
\* coordinator ends the process with a panic only when the close failed.
C2_CloseThenExitZero ==
    /\ status = "exit0" => closeResult = "ok"
    /\ closeResult = "fail" => status # "exit0"
    /\ (panicked = "main" /\ mainPc = "check") => closeResult = "fail"

\* C3: a GetNextDispatch failure other than E_FAIL ends the process with a
\* panic of the acquisition goroutine, and nothing happens after it: no poll,
\* no broadcast, no request, no retry.
C3_FatalDispatchTerminates ==
    /\ [](r1 = -2147024809 => status = "exit2" /\ panicked = "acq")
    /\ [][r1 = -2147024809 => UNCHANGED vars]_vars

\* C3's case: the loop had published, then a poll failed and the process ended.
C3_Witness ==
    /\ r1 = -2147024809
    /\ status = "exit2"
    /\ Len(published) = 1

\* C4: on E_FAIL the loop polls again at once: the step that gets E_FAIL
\* leaves the loop at its poll, without pause, without printing, without a
\* broadcast or a request, and changes nothing but the r1 it got.
C4_NoDataRetriesAtOnce ==
    [][(acqPc = "poll" /\ r1' = -2147467259 /\ r1 # r1') =>
          /\ acqPc' = "poll"
          /\ UNCHANGED <<status, panicked, mainVars, simVars, ppData, report,
                         acqLog, received, published, paused, httpPc,
                         hubVars>>]_vars

\* C4's case: the loop got E_FAIL while its request was outstanding, and
\* stands at the poll again.
C4_Witness ==
    /\ Running
    /\ acqPc = "poll"
    /\ r1 = -2147467259
    /\ outstanding = 1
    /\ Len(published) = 1

\* A response kind the switch has no case for.
Unrecognized(pp) ==
    pp.ID \notin {"none", "EXCEPTION", "OPEN", "EVENT", "SIMOBJECT_DATA_BYTYPE"}

\* C5 as stated: the step that receives an unrecognized kind does not end the
\* process, publishes nothing, and takes the loop to its next request.
C5_UnknownKindThenRequest ==
    [][(acqPc = "poll" /\ Unrecognized(ppData')) =>
          /\ status' = "running"
          /\ published' = published
          /\ acqPc' = "request"]_vars

\* C5 as amended: the step that receives an unrecognized kind does not end
\* the process, publishes nothing and requests nothing: it prints the kind and
\* goes to the pause, the outstanding request as it was; the pause leads back
\* to the poll, still without a broadcast or a request.
C5_UnknownKindNoRequest ==
    /\ [][(acqPc = "poll" /\ Unrecognized(ppData')) =>
             /\ status' = "running"
             /\ acqPc' = "sleep"
             /\ acqLog' = "recvInfo.ID unknown"
             /\ UNCHANGED <<published, requests, received, hubVars>>
             /\ outstanding' = outstanding]_vars
    /\ [][(acqPc = "sleep" /\ Unrecognized(ppData) /\ acqPc' # acqPc) =>
             /\ acqPc' = "poll"
             /\ UNCHANGED <<status, published, requests, outstanding, hubVars>>]_vars

\* C5's case: an unrecognized kind was received and the loop is at its pause.
C5_Witness ==
    /\ Running
    /\ acqPc = "sleep"
    /\ Unrecognized(ppData)
    /\ outstanding = 1

\* C6: whatever the sessions are (none, full, closed), Broadcast can be taken
\* and returns: the loop is never blocked at it, nor at the request and the
\* poll after it; the broadcast step serves every session that accepts, takes
\* the loop to its request, and with no session registered changes nothing in
\* the hub.
C6_BroadcastReturns ==
    /\ [](Running =>
            /\ acqPc = "broadcast" => ENABLED AcqBroadcast
            /\ acqPc = "request" => ENABLED AcqRequestData
            /\ acqPc = "sleep" => ENABLED AcqSleep
            /\ acqPc = "poll" => ENABLED AcqPoll)
    /\ [][(acqPc = "broadcast" /\ acqPc' # acqPc) =>
             /\ acqPc' = "request"
             /\ status' = "running"
             /\ \A s \in registry : Accepts(s) =>
                   sess'[s].queue = Append(sess[s].queue, Projection(report))
             /\ registry = {} => UNCHANGED hubVars]_vars

\* C6's case: a broadcast met a session that could not take the message, and
\* the loop went on to request and pause.
C6_Witness ==
    /\ Running
    /\ acqPc = "sleep"
    /\ AnswerAtHand
    /\ \E s \in Sessions : sess[s].state = "dropped"

\* C7: in a broadcast, a session whose enqueue fails (buffer full, or closed)
\* is removed, and only such sessions are; every other registered session gets
\* the message at the end of its buffer; a removed session is in the registry
\* no more and nothing is enqueued for it again.
C7_FailedEnqueueRemovesOnlyThatSession ==
    /\ [][(acqPc = "broadcast" /\ acqPc' # acqPc) =>
             /\ registry' = {s \in registry : Accepts(s)}
             /\ \A s \in registry :
                   IF Accepts(s)
                   THEN /\ sess'[s].state = "open"
                        /\ sess'[s].queue = Append(sess[s].queue, Projection(report))
                   ELSE sess'[s].state = "dropped"
             /\ \A s \in Sessions \ registry : sess'[s] = sess[s]]_vars
    /\ [][\A s \in Sessions :
             sess[s].state \in {"dropped", "gone"} =>
                /\ s \notin registry'
                /\ sess'[s] = sess[s]
                /\ sess[s].queue = <<>>]_vars
    /\ [](\A s \in Sessions : s \in registry <=> sess[s].state \in {"open", "closed"})

\* C7's case: of two registered sessions one was removed by a broadcast and
\* the other holds the message of that broadcast.
C7_Witness ==
    \E s, t \in Sessions :
        /\ sess[s].state = "dropped"
        /\ sess[t].state = "open"
        /\ published # <<>>
        /\ sess[t].queue = <<published[Len(published)]>>
        /\ acqPc = "request"

\* What a session has been handed since it joined: delivered, then buffered.
Handed(s) == sess[s].delivered \o sess[s].queue

DigitValue(c) == CHOOSE d \in 0..9 : DigitChar(d) = c

IsDigit(c) == \E d \in 0..9 : DigitChar(d) = c

RECURSIVE DigitsValue(_)
DigitsValue(str) ==
    IF Len(str) = 1 THEN DigitValue(str[1])
    ELSE 10 * DigitsValue(SubSeq(str, 1, Len(str) - 1)) + DigitValue(str[Len(str)])

ParseNat(str) ==
    IF /\ str # <<>>
       /\ \A i \in 1..Len(str) : IsDigit(str[i])
       /\ Len(str) > 1 => str[1] # "0"
    THEN DigitsValue(str)
    ELSE -1

Unsigned(str) == IF str # <<>> /\ str[1] = "-" THEN Tail(str) ELSE str

HasSign(str) == str # <<>> /\ str[1] = "-"

\* str is v (in sixteenths) written with no decimal places: an optional sign
\* and digits only, the integer nearest to the value.
ZeroDecimals(str, v) ==
    /\ HasSign(str) <=> v < 0
    /\ ParseNat(Unsigned(str)) >= 0
    /\ Abs(16 * ParseNat(Unsigned(str)) - Abs(v)) <= 8

\* str is v written with exactly one decimal place: digits, a point, one
\* digit, the tenth nearest to the value.
OneDecimal(str, v) ==
    LET u == Unsigned(str)
        n == Len(u)
    IN  /\ HasSign(str) <=> v < 0
        /\ n >= 3
        /\ u[n - 1] = "."
        /\ IsDigit(u[n])
        /\ ParseNat(SubSeq(u, 1, n - 2)) >= 0
        /\ Abs(16 * (10 * ParseNat(SubSeq(u, 1, n - 2)) + DigitValue(u[n]))
               - 10 * Abs(v)) <= 8

\* h is v with its fraction discarded.
Truncated(h, v) ==
    /\ h \in Int
    /\ 16 * Abs(h) <= Abs(v)
    /\ Abs(v) < 16 * Abs(h) + 16
    /\ v >= 0 => h >= 0
    /\ v <= 0 => h <= 0

\* The nine keys of an outbound message.
MessageKeys ==
    {"latitude", "longitude", "altitude", "heading", "airspeed",
     "vertical_speed", "flaps", "trim", "rudder_trim"}

MessageOf(m, r) ==
    /\ DOMAIN m = MessageKeys
    /\ m.latitude = r.Latitude
    /\ m.longitude = r.Longitude
    /\ ZeroDecimals(m.altitude, r.Altitude)
    /\ ZeroDecimals(m.airspeed, r.Airspeed)
    /\ ZeroDecimals(m.vertical_speed, r.VerticalSpeed)
    /\ ZeroDecimals(m.flaps, r.Flaps)
    /\ OneDecimal(m.trim, r.Trim)
    /\ OneDecimal(m.rudder_trim, r.RudderTrim)
    /\ Truncated(m.heading, r.Heading)

\* C9: every published message has exactly the nine keys, computed from the
\* record just received: latitude and longitude as they are, altitude,
\* airspeed, vertical speed and flaps with no decimal place, trim and rudder
\* trim with exactly one, heading truncated; the example record (altitude
\* 1000.375, heading 183.6875, airspeed 120.1875, vertical speed -50, flaps 0,
\* trim 2.3125, rudder trim 0) gives "1000", 183, "120", "-50", "0", "2.3"
\* and "0.0".
C9_MessageFormat ==
    \A i \in 1..Len(published) :
        /\ i <= Len(received)
        /\ MessageOf(published[i], received[i])
        /\ received[i] = ReportA =>
              /\ published[i].altitude = <<"1", "0", "0", "0">>
              /\ published[i].heading = 183
              /\ published[i].airspeed = <<"1", "2", "0">>
              /\ published[i].vertical_speed = <<"-", "5", "0">>
              /\ published[i].flaps = <<"0">>
              /\ published[i].trim = <<"2", ".", "3">>
              /\ published[i].rudder_trim = <<"0", ".", "0">>

\* C9's case: a record with a negative value that rounds to zero, a tie and a
\* negative heading has been published.
C9_Witness ==
    /\ Len(published) = 1
    /\ received[1].Altitude = -7
    /\ received[1].Trim = -4
    /\ received[1].Heading = -25
    /\ published[1].altitude = <<"-", "0">>
    /\ published[1].trim = <<"-", "0", ".", "2">>
    /\ published[1].heading = -1

\* C10: a step in which the coordinator takes a new-connection notification
\* or an inbound message is taken in the select loop and leaves it there; it
\* causes no broadcast and no request, and changes nothing of the acquisition
\* loop, the simulator, the sessions, the signal or the process; and whenever
\* the coordinator is in the select loop with a signal waiting, it can take it.
C10_DrainAndSkip ==
    /\ [][(newConnection' < newConnection \/ receiveMessages' < receiveMessages) =>
             /\ mainPc = "select"
             /\ mainPc' = "select"
             /\ UNCHANGED <<status, panicked, err, closeResult, exitSignal,
                            simVars, acqVars, httpPc, registry, sess>>]_vars
    /\ [](Running /\ mainPc = "select" /\ exitSignal > 0 => ENABLED CoordSignal)

\* C10's case: a session's notification was taken (it is registered and the
\* channel is empty again) and the signal is waiting for the coordinator.
C10_Witness ==
    /\ Running
    /\ mainPc = "select"
    /\ exitSignal = 1
    /\ newConnection = 0
    /\ receiveMessages = 0
    /\ \E s \in Sessions : sess[s].state = "open"

\* A decode mismatch: an object-data response that is not the answer to the
\* Report request, or a response of a kind the switch has no case for.
DecodeMismatch(pp) ==
    \/ pp.ID = "SIMOBJECT_DATA_BYTYPE" /\ pp.RequestID # defineMap
    \/ Unrecognized(pp)

\* C11: a decode mismatch does not end the process, is logged, and leaves the
\* loop awaiting: with the mismatching response at hand the goroutine has not
\* panicked, it has printed a line, it stands at its pause on the way back to
\* the poll, one request is outstanding and nothing was broadcast for the
\* response (the broadcasts are the answers received).
C11_MismatchLoggedAndAwaiting ==
    (r1 = 0 /\ DecodeMismatch(ppData)) =>
        /\ panicked # "acq"
        /\ acqLog # ""
        /\ acqPc = "sleep"
        /\ outstanding = 1
        /\ Len(published) = Len(received)

\* C12: when simconnect.New or RegisterDataDefinition fails, the process ends
\* with a panic of main where it stands, before the loop begins: no request was
\* issued, neither goroutine was started, nothing was or will be broadcast (an
\* ended process takes no step), and no session was ever served.  Main panics
\* at startup for no other reason, and a startup error is never passed over.
C12_StartupFailureTerminates ==
    /\ err \in {"connectErr", "registerErr"} =>
          /\ status = "exit2"
          /\ panicked = "main"
          /\ mainPc = (IF err = "connectErr" THEN "connect" ELSE "register")
    /\ (panicked = "main" /\ mainPc \in {"connect", "register"}) =>
          /\ status = "exit2"
          /\ err = (IF mainPc = "connect" THEN "connectErr" ELSE "registerErr")
          /\ requests = 0
          /\ outstanding = 0
          /\ acqPc = "off"
          /\ httpPc = "off"
          /\ received = <<>>
          /\ published = <<>>
          /\ registry = {}
          /\ ~ENABLED Next
    /\ mainPc \in {"connect", "register", "request"} =>
          requests = 0 /\ acqPc = "off" /\ httpPc = "off" /\ published = <<>>

\* C12's case: the connection was made and the registration failed.
C12_Witness ==
    /\ status = "exit2"
    /\ panicked = "main"
    /\ mainPc = "register"
    /\ err = "registerErr"
    /\ defineMap = -1

\* C13: at most one data request is outstanding.  The requests issued are the
\* answers received plus the outstanding ones; the first is issued by main
\* before the goroutines start, every later one after an answer (never more
\* requests than answers plus one, nor than broadcasts plus one); and while the
\* loop polls or pauses exactly one request is open.
C13_SingleOutstandingRequest ==
    /\ outstanding \in {0, 1}
    /\ requests = Len(received) + outstanding
    /\ requests <= Len(received) + 1
    /\ requests <= Len(published) + 1
    /\ acqPc = "off" => requests = StartupRequests /\ received = <<>>
    /\ acqPc # "off" => requests >= 1
    /\ acqPc \in {"poll", "sleep"} => outstanding = 1
    /\ acqPc \in {"broadcast", "request"} => outstanding = 0

\* C13's case: two answers were broadcast and the third request is open.
C13_Witness ==
    /\ Running
    /\ acqPc = "poll"
    /\ requests = 3
    /\ Len(published) = 2
    /\ outstanding = 1

\* A response of a kind the switch names and that carries no data.
RecognizedNonData(pp) == pp.ID \in {"EXCEPTION", "OPEN", "EVENT"}

\* C14: the step that receives an exception, an open acknowledgment or a
\* generic event prints the line of that kind and nothing else happens: report
\* keeps its record, nothing is broadcast or requested, the outstanding request
\* and the hub are as they were and the process runs on; the loop goes to its
\* pause, and from there back to the poll, again without a broadcast or a
\* request.
C14_NonDataOnlyReported ==
    /\ [][(acqPc = "poll" /\ RecognizedNonData(ppData')) =>
             /\ acqLog' = LogLine(ppData'.ID)
             /\ acqLog' # ""
             /\ acqPc' = "sleep"
             /\ status' = "running"
             /\ UNCHANGED <<report, received, published, requests, outstanding,
                            defineMap, hubVars>>]_vars
    /\ [][(acqPc = "sleep" /\ RecognizedNonData(ppData) /\ acqPc' # acqPc) =>
             /\ acqPc' = "poll"
             /\ UNCHANGED <<status, report, received, published, requests,
                            outstanding, hubVars>>]_vars
    /\ [](RecognizedNonData(ppData) /\ Running => ENABLED AcqSleep)

\* C14's case: after a broadcast an event was received; the loop is at its
\* pause with the record of the broadcast still in report.
C14_Witness ==
    /\ Running
    /\ acqPc = "sleep"
    /\ ppData.ID = "EVENT"
    /\ acqLog = "unknown SIMCONNECT_RECV_ID_EVENT"
    /\ Len(published) = 1
    /\ report = ReportA
    /\ outstanding = 1

\* C15: a full cycle is an iteration that got a response (the E_FAIL retry of
\* C4 cuts the iteration short).  The step that gets a response takes the loop
\* out of the poll, to the broadcast or to the pause; the broadcast leads to
\* the request and the request to the pause; the pause can always be taken;
\* and the poll is entered from the pause alone (and from the goroutine's
\* start): so the loop pauses between a response, published or not, and the
\* next poll.
C15_PauseAfterEachCycle ==
    /\ [][(acqPc = "poll" /\ ppData' # ppData) =>
             /\ ppData = NoData
             /\ r1' = 0
             /\ acqPc' = (IF Len(published) < Len(received') THEN "broadcast"
                                                            ELSE "sleep")]_vars
    /\ [][(acqPc = "broadcast" /\ acqPc' # acqPc) => acqPc' = "request"]_vars
    /\ [][(acqPc = "request" /\ acqPc' # acqPc) => acqPc' = "sleep"]_vars
    /\ [][(acqPc = "sleep" /\ acqPc' # acqPc) => acqPc' = "poll" /\ paused']_vars
    /\ [][(acqPc' = "poll" /\ acqPc' # acqPc) => acqPc \in {"sleep", "off"}]_vars
    /\ [](Running /\ acqPc = "sleep" => ENABLED AcqSleep)

\* C15's case: the cycle that published has ended in its pause, and the cycle
\* after it, which got an event and published nothing, stands at its own.
C15_Witness ==
    /\ Running
    /\ acqPc = "sleep"
    /\ ppData.ID = "EVENT"
    /\ paused
    /\ Len(published) = 1
    /\ requests = 2

\* C16: between two consecutive broadcasts the loop pauses at least once,
\* however fast the answers come: whenever the loop stands at ws.Broadcast, and
\* whenever it polls, it has paused since its last broadcast; it has not yet
\* when it stands at the request that follows a broadcast.
C16_PauseBetweenBroadcasts ==
    /\ acqPc \in {"broadcast", "poll"} => paused
    /\ acqPc = "request" => ~paused
    /\ (acqPc = "sleep" /\ ~paused) => AnswerAtHand /\ outstanding = 1
    /\ published = <<>> => paused

\* C16's case: the simulator answered the second request at the first poll
\* after it, and the second broadcast is about to be made, the pause in between
\* taken.
C16_Witness ==
    /\ Running
    /\ acqPc = "broadcast"
    /\ Len(published) = 1
    /\ Len(received) = 2
    /\ paused

(***************************************************************************)
(* Progress.  The Go scheduler runs every runnable goroutine, so a step of *)
(* the acquisition goroutine that stays possible is taken: weak fairness   *)
(* of its steps.  That the simulator answers every outstanding request is  *)
(* an assumption about the environment: the poll that returns the answer   *)
(* is taken if it is possible again and again (it is not while the loop    *)
(* pauses), which is strong fairness.                                      *)
(***************************************************************************)
\* s.GetNextDispatch() returns the answer to the outstanding request.
AcqAnswered == AcqPoll /\ Len(received') > Len(received)

FairSpec ==
    /\ Spec
    /\ WF_vars(AcqPoll)
    /\ WF_vars(AcqBroadcast)
    /\ WF_vars(AcqRequestData)
    /\ WF_vars(AcqSleep)
    /\ SF_vars(AcqAnswered)

\* The acquisition goroutine can take a step.
AcqCanStep == ENABLED (AcqPoll \/ AcqBroadcast \/ AcqRequestData \/ AcqSleep)

\* C17: the loop has no terminal state: once started it is at one of its four
\* positions and, while the process runs, it can take a step, whatever the
\* responses were; and when the simulator answers every outstanding request
\* (here: as long as its flight has a record left), the n-th broadcast and the
\* request after it come about, for every n, unless the process ends first.
C17_NoTerminalState ==
    /\ [](acqPc \in {"off", "poll", "broadcast", "request", "sleep"})
    /\ [](Running /\ acqPc # "off" => AcqCanStep)
    /\ \A n \in 0..(MaxRecords - 1) :
          (acqPc # "off" /\ Len(published) = n)
             ~> (~Running \/ (Len(published) = n + 1 /\ requests = n + 2))

\* C17's case: the loop has broadcast every record of the flight, with events
\* in between, has issued the request after the last one, and runs on.
C17_Witness ==
    /\ Running
    /\ mainPc = "select"
    /\ acqPc = "sleep"
    /\ ppData.ID = "EVENT"
    /\ Len(published) = MaxRecords
    /\ requests = MaxRecords + 1

\* C18: once the coordinator has closed the connection successfully, the
\* acquisition goroutine neither ends the process with its panic nor makes a
\* further broadcast: with the close done, no panic of the goroutine has ended
\* the process, and no step after the close adds to the messages published.
C18_ShutdownUndisturbed ==
    /\ [](closeResult = "ok" => panicked # "acq")
    /\ [][closeResult = "ok" => published' = published]_vars

\* C19: how the coordinator ends the process after the interrupt depends on
\* the result of s.Close() alone, page requests or not: when it has ended the
\* process, it did so with status 0 if the close succeeded and with its panic
\* if the close failed.
C19_OutcomeIsCloseResult ==
    (mainPc = "check" /\ (status = "exit0" \/ panicked = "main")) =>
        /\ closeResult = "ok" => status = "exit0" /\ panicked = "none"
        /\ closeResult = "fail" => status = "exit2" /\ panicked = "main"

====
